---- MODULE Spec2Model ----
(***************************************************************************)
(* A model of PaperCrawler (src/main.py): the results-page parser          *)
(* fetch_arxiv_papers, the PDF download loop download_papers, the CSV      *)
(* ledger (read_downloaded_papers / save_all_paper_info) and the crawl     *)
(* run main.                                                               *)
(*                                                                         *)
(* Strings the code inspects character by character (titles, author        *)
(* names, CSV cells) are sequences of one-character strings.  Year-months  *)
(* "YYYYMM" and dates "YYYYMMDD" are the integers the digits denote.       *)
(***************************************************************************)
EXTENDS Integers, Sequences, FiniteSets, TLC

VARIABLES
    ledger,             \* the rows of Papers/paper_list.csv, as written cells
    files,              \* the PDF paths that exist on disk
    clock,              \* the wall clock, in days since the first day
    mode,               \* "sequential": one run at a time; "concurrent": overlapping
    pc,                 \* pc[p]: where run p stands in main
    today,              \* today[p]: main's local `today`
    query,              \* query[p]: start_year_month, end_year_month, num_papers
    end_resolved,       \* end_resolved[p]: end_year_month after line 54-55
    downloaded_titles,  \* downloaded_titles[p]: main's local list (line 135)
    papers,             \* papers[p]: the batch fetch_arxiv_papers returned
    attempts,           \* attempts[p]: per paper of the batch, what download_papers did
    df,                 \* df[p]: the frame save_all_paper_info read (line 47)
    ledger0,            \* history: the ledger file when run p started
    dir_empty0,         \* history: run p's download directory held no file at start
    appended,           \* history: number of rows completed runs handed to the ledger
    last_writer,        \* history: the run that wrote the ledger last (0: none)
    entries,            \* parser alone: the entries of the results page
    known,              \* parser alone: the supplied downloaded_titles
    num,                \* parser alone: num_papers
    out                 \* parser alone: the result of the parse

vars == << ledger, files, clock, mode, pc, today, query, end_resolved,
           downloaded_titles, papers, attempts, df, ledger0, dir_empty0,
           appended, last_writer, entries, known, num, out >>

runVars == << ledger, files, clock, mode, pc, today, query, end_resolved,
              downloaded_titles, papers, attempts, df, ledger0, dir_empty0,
              appended, last_writer >>

parserVars == << entries, known, num, out >>

----------------------------------------------------------------------------
(* Bounds of the model *)

MaxEntries == 3     \* entries on a page handed to the parser alone
MaxPageLen == 2     \* entries on a page fetched by a crawl run
MaxRuns == 2        \* crawl runs
MaxNumPapers == 2   \* largest num_papers tried
MaxDay == 2         \* days the clock can show

----------------------------------------------------------------------------
(* Strings *)

\* str.strip(): drop leading and trailing whitespace (line 83)
RECURSIVE LStrip(_)
LStrip(s) ==
    IF s # << >> /\ Head(s) = " " THEN LStrip(Tail(s)) ELSE s

RECURSIVE RStrip(_)
RStrip(s) ==
    IF s # << >> /\ s[Len(s)] = " " THEN RStrip(SubSeq(s, 1, Len(s) - 1)) ELSE s

strip(s) == RStrip(LStrip(s))

\* paper['Title'].replace(':', '').replace('/', '-') (line 115)
RECURSIVE SanitizeTitle(_)
SanitizeTitle(s) ==
    IF s = << >> THEN << >>
    ELSE IF Head(s) = ":" THEN SanitizeTitle(Tail(s))
    ELSE IF Head(s) = "/" THEN << "-" >> \o SanitizeTitle(Tail(s))
    ELSE << Head(s) >> \o SanitizeTitle(Tail(s))

\* datetime.strptime(date_str, "%B %Y"): the full month names (line 92)
MonthNames ==
    << "January", "February", "March", "April", "May", "June", "July",
       "August", "September", "October", "November", "December" >>

MonthNumber(name) ==
    IF \E m \in 1..12 : MonthNames[m] = name
    THEN CHOOSE m \in 1..12 : MonthNames[m] = name
    ELSE 0

\* strptime(...).strftime("%Y%m") of a recognised "<Month> <year>" (line 92)
YearMonthOf(month, year) == year * 100 + MonthNumber(month)

\* datetime.today().strftime('%Y%m%d') when the clock shows day c: the first
\* day is the last of a month, so that the clock can cross into the next
DateOf(c) == IF c = 1 THEN 20240630 ELSE 20240700 + (c - 1)

\* datetime.now().strftime("%Y%m") (line 55)
NowYearMonth(c) == DateOf(c) \div 100

----------------------------------------------------------------------------
(* The CSV ledger: pandas to_csv / read_csv (lines 41-50)                  *)

\* a value of a DataFrame text column: a string, or NaN
NaN == [nan |-> TRUE, s |-> << >>]
Str(s) == [nan |-> FALSE, s |-> s]

\* cells read_csv turns into NaN (pandas' default na_values; those that can
\* be written with the characters used here)
NaCells ==
    { << >>, << "N", "A" >>, << "N", "/", "A" >>, << "N", "a", "N" >> }

\* read_csv on one text cell
ReadCell(c) == IF c \in NaCells THEN NaN ELSE Str(c)

\* to_csv on one value of a text column: NaN is written as the empty cell
WriteCell(v) == IF v.nan THEN << >> ELSE v.s

\* pd.read_csv(csv_path): every row of the file, text cells parsed; the
\* numeric columns (Download Date, YearMonth) come back as the same numbers
ReadCsv(rows) ==
    [i \in 1..Len(rows) |->
        [date |-> rows[i].date, ym |-> rows[i].ym,
         title |-> ReadCell(rows[i].title), journal |-> rows[i].journal,
         author |-> ReadCell(rows[i].author)]]

\* df.to_csv(csv_path, index=False): every row of the frame, as cells
WriteCsv(frame) ==
    [i \in 1..Len(frame) |->
        [date |-> frame[i].date, ym |-> frame[i].ym,
         title |-> WriteCell(frame[i].title), journal |-> frame[i].journal,
         author |-> WriteCell(frame[i].author)]]

\* read_downloaded_papers (lines 41-43)
read_downloaded_papers(file) == ReadCsv(file)

\* downloaded_papers['Title'].tolist() (line 135)
TitleList(frame) == [i \in 1..Len(frame) |-> frame[i].title]

\* the membership test with its sense inverted
TitleInInverted(title, titles) ==
    ~\E i \in 1..Len(titles) : ~titles[i].nan /\ titles[i].s = title

\* `title in downloaded_titles` (line 84): == against each element; NaN
\* equals no string
TitleIn(title, titles) ==
    \E i \in 1..Len(titles) : ~titles[i].nan /\ titles[i].s = title

\* pd.DataFrame(all_paper_info) (line 48): the batch's strings as values
NewFrame(all_paper_info) ==
    [i \in 1..Len(all_paper_info) |->
        [date |-> all_paper_info[i].date, ym |-> all_paper_info[i].ym,
         title |-> Str(all_paper_info[i].title),
         journal |-> all_paper_info[i].journal,
         author |-> Str(all_paper_info[i].author)]]

\* the file written from the new batch alone
SavedFileOverwrite(frame, all_paper_info) == WriteCsv(NewFrame(all_paper_info))

\* pd.concat([df, new_df], ignore_index=True) then to_csv (lines 49-50)
SavedFile(frame, all_paper_info) == WriteCsv(frame \o NewFrame(all_paper_info))

----------------------------------------------------------------------------
(* fetch_arxiv_papers: the loop over the entries (lines 74-110)            *)
(*                                                                         *)
(* An entry of the page is                                                 *)
(*   title     the text of p.title                                         *)
(*   published [elem: is there a p.is-size-7, match: does its text match   *)
(*              'originally announced (\w+ \d{4})', month, year: the match]*)
(*   authors   [elem: is there a p.authors, names: the comma-separated     *)
(*              names after the 'Authors:' label]                          *)
(*   pdf       is there an <a> whose href contains 'pdf'                   *)
(*   link      that href                                                   *)

\* .text.replace('Authors:', '').split(',')[0].strip() (line 94)
FirstAuthor(names) == IF names = << >> THEN << >> ELSE strip(names[1])

\* the dict appended at lines 99-106
PaperOf(entry, title, date) ==
    [date |-> date,
     ym |-> YearMonthOf(entry.published.month, entry.published.year),
     title |-> title,
     author |-> FirstAuthor(entry.authors.names),
     link |-> entry.link,
     journal |-> "arXiv"]

\* `len(papers) >= num_papers` (line 80)
EnoughPapersOffByOne(ps, num_papers) == Len(ps) > num_papers
EnoughPapers(ps, num_papers) == Len(ps) >= num_papers

\* The loop state: papers is the list built so far, taken the positions on
\* the page of the entries it was built from, raised whether an exception
\* left the function (which then returns nothing).
Raised == [papers |-> << >>, taken |-> << >>, raised |-> TRUE]

RECURSIVE ParseLoop(_, _, _, _, _, _)
ParseLoop(es, i, st, num_papers, titles, date) ==
    IF i > Len(es) THEN st
    ELSE IF EnoughPapers(st.papers, num_papers) THEN st             \* line 80-81
    ELSE LET entry == es[i]
             title == strip(entry.title.text)                       \* line 83
         IN  IF ~entry.title.elem                                   \* line 83: None.text
             THEN Raised
             ELSE IF TitleIn(title, titles)                         \* line 84-85
             THEN ParseLoop(es, i + 1, st, num_papers, titles, date)
             ELSE IF ~entry.published.elem                          \* line 88: None.text
             THEN Raised
             ELSE IF ~entry.published.match                         \* line 90
             THEN ParseLoop(es, i + 1, st, num_papers, titles, date)
             ELSE IF MonthNumber(entry.published.month) = 0         \* line 92: ValueError
             THEN Raised
             ELSE IF ~entry.authors.elem                            \* line 94: None.text
             THEN Raised
             ELSE IF ~entry.pdf                                     \* line 96-97
             THEN ParseLoop(es, i + 1, st, num_papers, titles, date)
             ELSE ParseLoop(es, i + 1,
                            [st EXCEPT !.papers = Append(@, PaperOf(entry, title, date)),
                                       !.taken = Append(@, i)],
                            num_papers, titles, date)

fetch_arxiv_papers(es, num_papers, titles, date) ==
    ParseLoop(es, 1, [papers |-> << >>, taken |-> << >>, raised |-> FALSE],
              num_papers, titles, date)

----------------------------------------------------------------------------
(* Results pages *)

Title(text) == [elem |-> TRUE, text |-> text]
NoTitle == [elem |-> FALSE, text |-> << >>]

Announced(month, year) == [elem |-> TRUE, match |-> TRUE, month |-> month, year |-> year]
NotAnnounced == [elem |-> TRUE, match |-> FALSE, month |-> "", year |-> 0]
NoPublished == [elem |-> FALSE, match |-> FALSE, month |-> "", year |-> 0]

Authors(names) == [elem |-> TRUE, names |-> names]
NoAuthors == [elem |-> FALSE, names |-> << >>]

KimLee == Authors(<< << " ", "K" >>, << " ", "L" >> >>)

Entry(title, published, authors, pdf) ==
    [title |-> title, published |-> published, authors |-> authors,
     pdf |-> pdf, link |-> IF pdf THEN "/pdf/1" ELSE ""]

\* all sequences over S of length at most n
SeqsUpTo(S, n) == UNION { [1..k -> S] : k \in 0..n }

\* the entries tried on the parser alone
ParserEntries ==
    { Entry(Title(<< "a" >>), Announced("June", 2024), KimLee, TRUE),
      Entry(Title(<< " ", "a", " " >>), Announced("January", 2023), KimLee, TRUE),
      Entry(Title(<< "b" >>), Announced("June", 2024), KimLee, TRUE),
      Entry(Title(<< "b" >>), Announced("June", 2024), KimLee, FALSE),
      Entry(Title(<< "b" >>), NotAnnounced, KimLee, TRUE),
      Entry(Title(<< "b" >>), NoPublished, KimLee, TRUE),
      Entry(Title(<< "a" >>), Announced("Foo", 2024), KimLee, TRUE),
      Entry(Title(<< "b" >>), Announced("Foo", 2024), KimLee, FALSE),
      Entry(Title(<< "b" >>), Announced("June", 2024), NoAuthors, FALSE),
      Entry(NoTitle, Announced("June", 2024), KimLee, TRUE) }

\* the known-titles lists tried on the parser alone
ParserKnown ==
    { << >>, << Str(<< "a" >>) >>, << Str(<< "b" >>) >>,
      << Str(<< "a" >>), Str(<< "b" >>) >>, << NaN >> }

----------------------------------------------------------------------------
(* The parser alone: fetch_arxiv_papers on one page *)

NotParsed == [done |-> FALSE, papers |-> << >>, taken |-> << >>, raised |-> FALSE]

RunIdle ==
    /\ ledger = << >>
    /\ files = { }
    /\ clock = 1
    /\ pc = [p \in 1..MaxRuns |-> "idle"]
    /\ today = [p \in 1..MaxRuns |-> 0]
    /\ query = [p \in 1..MaxRuns |-> [start |-> 0, end |-> 0, num_papers |-> 0]]
    /\ end_resolved = [p \in 1..MaxRuns |-> 0]
    /\ downloaded_titles = [p \in 1..MaxRuns |-> << >>]
    /\ papers = [p \in 1..MaxRuns |-> << >>]
    /\ attempts = [p \in 1..MaxRuns |-> << >>]
    /\ df = [p \in 1..MaxRuns |-> << >>]
    /\ ledger0 = [p \in 1..MaxRuns |-> << >>]
    /\ dir_empty0 = [p \in 1..MaxRuns |-> TRUE]
    /\ appended = 0
    /\ last_writer = 0

InitParser ==
    /\ RunIdle
    /\ mode = "sequential"
    /\ entries \in SeqsUpTo(ParserEntries, MaxEntries)
    /\ known \in ParserKnown
    /\ num \in -1..MaxNumPapers
    /\ out = NotParsed

Parse ==
    /\ ~out.done
    /\ LET r == fetch_arxiv_papers(entries, num, known, DateOf(clock))
       IN  out' = [done |-> TRUE, papers |-> r.papers, taken |-> r.taken,
                   raised |-> r.raised]
    /\ UNCHANGED << entries, known, num >>
    /\ UNCHANGED runVars

NextParser == Parse

SpecParser == InitParser /\ [][NextParser]_vars

----------------------------------------------------------------------------
(* A crawl run: main (lines 125-151) *)

Procs == 1..MaxRuns

\* the entries tried on the pages a run fetches
RunEntries ==
    { Entry(Title(<< "a" >>), Announced("June", 2024), KimLee, TRUE),
      Entry(Title(<< "a", ":" >>), Announced("June", 2024), KimLee, TRUE),
      Entry(Title(<< "N", "A" >>), Announced("January", 2023), KimLee, TRUE),
      Entry(Title(<< "b" >>), Announced("Foo", 2024), KimLee, TRUE) }

RunPages == SeqsUpTo(RunEntries, MaxPageLen)

\* a narrower choice of pages: one title announced at two dates, and an
\* entry that raises
SeqEntries ==
    { Entry(Title(<< "a" >>), Announced("June", 2024), KimLee, TRUE),
      Entry(Title(<< "a" >>), Announced("January", 2023), KimLee, TRUE),
      Entry(Title(<< "b" >>), Announced("Foo", 2024), KimLee, TRUE) }

SeqPages == SeqsUpTo(SeqEntries, MaxPageLen)

\* the narrowest choice of pages: an entry that parses and one that raises
CoreEntries ==
    { Entry(Title(<< "a" >>), Announced("June", 2024), KimLee, TRUE),
      Entry(Title(<< "b" >>), Announced("Foo", 2024), KimLee, TRUE) }

CorePages == SeqsUpTo(CoreEntries, MaxPageLen)

\* start_year_month, end_year_month (0: not supplied), num_papers
Queries ==
    { [start |-> 202301, end |-> 202312, num_papers |-> n] : n \in 1..MaxNumPapers }
        \cup { [start |-> 202301, end |-> 0, num_papers |-> MaxNumPapers] }

CoreQueries == { [start |-> 202301, end |-> 0, num_papers |-> MaxNumPapers] }

Active(p) == pc[p] \in { "fetch", "download", "save_read", "save_write" }

\* os.path.join(download_dir, f"{paper['YearMonth']}_{title}.pdf") (lines 115-116)
PdfPath(dir, paper) ==
    [dir |-> dir, ym |-> paper.ym, name |-> SanitizeTitle(paper.title)]

\* all_paper_info as built at lines 140-148
AllPaperInfo(ps, day) ==
    [k \in 1..Len(ps) |->
        [date |-> day, ym |-> ps[k].ym, title |-> ps[k].title,
         journal |-> ps[k].journal, author |-> ps[k].author]]

InitRun ==
    /\ RunIdle
    /\ mode \in { "sequential", "concurrent" }
    /\ entries = << >>
    /\ known = << >>
    /\ num = 0
    /\ out = NotParsed

\* the clock passes midnight
Tick ==
    /\ clock < MaxDay
    /\ clock' = clock + 1
    /\ UNCHANGED << ledger, files, mode, pc, today, query, end_resolved,
                    downloaded_titles, papers, attempts, df, ledger0,
                    dir_empty0, appended >>
    /\ UNCHANGED << last_writer, parserVars >>

\* main, lines 126-135: today, the dated directory, the ledger's titles.
\* Runs are numbered in the order they start; "sequential" lets a run start
\* only when no other is under way, "concurrent" lets two overlap.
Start(p, queries) ==
    /\ pc[p] = "idle"
    /\ \A q \in 1..(p - 1) : pc[q] # "idle"
    /\ Cardinality({ q \in Procs : Active(q) }) < (IF mode = "sequential" THEN 1 ELSE 2)
    /\ \E qu \in queries : query' = [query EXCEPT ![p] = qu]
    /\ today' = [today EXCEPT ![p] = DateOf(clock)]
    /\ downloaded_titles' =
          [downloaded_titles EXCEPT ![p] = TitleList(read_downloaded_papers(ledger))]
    /\ ledger0' = [ledger0 EXCEPT ![p] = ledger]
    /\ dir_empty0' = [dir_empty0 EXCEPT ![p] = ~\E f \in files : f.dir = DateOf(clock)]
    /\ pc' = [pc EXCEPT ![p] = "fetch"]
    /\ UNCHANGED << ledger, files, clock, mode, end_resolved, papers, attempts,
                    df, appended >>
    /\ UNCHANGED << last_writer, parserVars >>

\* line 54-55
ResolveEnd(end_year_month, c) ==
    IF end_year_month = 0 THEN NowYearMonth(c) ELSE end_year_month

\* fetch_arxiv_papers returns a batch (lines 52-110)
Fetch(p, pages) ==
    /\ pc[p] = "fetch"
    /\ \E page \in pages :
          LET r == fetch_arxiv_papers(page, query[p].num_papers,
                                      downloaded_titles[p], DateOf(clock))
          IN  /\ ~r.raised
              /\ papers' = [papers EXCEPT ![p] = r.papers]
    /\ end_resolved' = [end_resolved EXCEPT ![p] = ResolveEnd(query[p].end, clock)]
    /\ pc' = [pc EXCEPT ![p] = "download"]
    /\ UNCHANGED << ledger, files, clock, mode, today, query, downloaded_titles,
                    attempts, df, ledger0, dir_empty0, appended >>
    /\ UNCHANGED << last_writer, parserVars >>

\* an exception leaves a run with the ledger written from what it holds
AbortSaving(p) ==
    /\ pc' = [pc EXCEPT ![p] = "aborted"]
    /\ ledger' = SavedFile(read_downloaded_papers(ledger),
                           AllPaperInfo(papers[p], today[p]))

\* the run ends on an exception nothing catches: main has no handler, so
\* save_all_paper_info (line 149) is never reached
Abort(p) ==
    /\ pc' = [pc EXCEPT ![p] = "aborted"]
    /\ UNCHANGED ledger

\* fetch_arxiv_papers raises while parsing an entry (lines 83, 88, 92, 94)
FetchParseError(p, pages) ==
    /\ pc[p] = "fetch"
    /\ \E page \in pages :
          fetch_arxiv_papers(page, query[p].num_papers, downloaded_titles[p],
                             DateOf(clock)).raised
    /\ Abort(p)
    /\ UNCHANGED << files, clock, mode, today, query, end_resolved,
                    downloaded_titles, papers, attempts, df, ledger0,
                    dir_empty0, appended >>
    /\ UNCHANGED << last_writer, parserVars >>

\* the browser fails to load the results page (lines 67-69)
FetchFail(p) ==
    /\ pc[p] = "fetch"
    /\ Abort(p)
    /\ UNCHANGED << files, clock, mode, today, query, end_resolved,
                    downloaded_titles, papers, attempts, df, ledger0,
                    dir_empty0, appended >>
    /\ UNCHANGED << last_writer, parserVars >>

\* download_papers, one paper of the loop (lines 114-123): the PDF is
\* fetched and written, or found on disk and skipped
Download(p) ==
    /\ pc[p] = "download"
    /\ Len(attempts[p]) < Len(papers[p])
    /\ LET paper == papers[p][Len(attempts[p]) + 1]
           pdf_path == PdfPath(today[p], paper)
       IN  IF pdf_path \notin files
           THEN /\ files' = files \cup { pdf_path }
                /\ attempts' = [attempts EXCEPT ![p] = Append(@, "fetched")]
           ELSE /\ files' = files
                /\ attempts' = [attempts EXCEPT ![p] = Append(@, "skipped")]
    /\ UNCHANGED << ledger, clock, mode, pc, today, query, end_resolved,
                    downloaded_titles, papers, df, ledger0, dir_empty0, appended >>
    /\ UNCHANGED << last_writer, parserVars >>

\* requests.get raises for a paper whose file is not on disk (line 118)
DownloadFail(p) ==
    /\ pc[p] = "download"
    /\ Len(attempts[p]) < Len(papers[p])
    /\ PdfPath(today[p], papers[p][Len(attempts[p]) + 1]) \notin files
    /\ Abort(p)
    /\ UNCHANGED << files, clock, mode, today, query, end_resolved,
                    downloaded_titles, papers, attempts, df, ledger0,
                    dir_empty0, appended >>
    /\ UNCHANGED << last_writer, parserVars >>

\* save_all_paper_info entered while papers are still to be downloaded
SaveReadEarly(p) ==
    /\ pc[p] = "download"
    /\ df' = [df EXCEPT ![p] = read_downloaded_papers(ledger)]
    /\ pc' = [pc EXCEPT ![p] = "save_write"]
    /\ UNCHANGED << ledger, files, clock, mode, today, query, end_resolved,
                    downloaded_titles, papers, attempts, ledger0, dir_empty0,
                    appended >>
    /\ UNCHANGED << last_writer, parserVars >>

\* download_papers returns; main builds all_paper_info and calls
\* save_all_paper_info, which reads the ledger (lines 138-149, 47)
SaveRead(p) ==
    /\ pc[p] = "download"
    /\ Len(attempts[p]) = Len(papers[p])
    /\ df' = [df EXCEPT ![p] = read_downloaded_papers(ledger)]
    /\ pc' = [pc EXCEPT ![p] = "save_write"]
    /\ UNCHANGED << ledger, files, clock, mode, today, query, end_resolved,
                    downloaded_titles, papers, attempts, ledger0, dir_empty0,
                    appended >>
    /\ UNCHANGED << last_writer, parserVars >>

\* save_all_paper_info concatenates and writes the file (lines 48-50)
SaveWrite(p) ==
    /\ pc[p] = "save_write"
    /\ ledger' = SavedFile(df[p], AllPaperInfo(papers[p], today[p]))
    /\ appended' = appended + Len(papers[p])
    /\ pc' = [pc EXCEPT ![p] = "done"]
    /\ UNCHANGED << files, clock, mode, today, query, end_resolved,
                    downloaded_titles, papers, attempts, df, ledger0, dir_empty0 >>
    /\ last_writer' = p
    /\ UNCHANGED parserVars

\* every step of a run but the two that take input
RunStep(p) ==
    \/ FetchFail(p)
    \/ Download(p)
    \/ DownloadFail(p)
    \/ SaveRead(p)
    \/ SaveWrite(p)

Next ==
    \/ Tick
    \/ \E p \in Procs : Start(p, Queries)
    \/ \E p \in Procs : Fetch(p, RunPages)
    \/ \E p \in Procs : FetchParseError(p, RunPages)
    \/ \E p \in Procs : RunStep(p)

Spec == InitRun /\ [][Next]_vars

\* the same runs over the narrower choice of pages and queries
NextCore ==
    \/ Tick
    \/ \E p \in Procs : Start(p, CoreQueries)
    \/ \E p \in Procs : Fetch(p, CorePages)
    \/ \E p \in Procs : FetchParseError(p, CorePages)
    \/ \E p \in Procs : RunStep(p)

SpecCore == InitRun /\ [][NextCore]_vars

\* runs one at a time only
InitSeq ==
    /\ RunIdle
    /\ mode = "sequential"
    /\ entries = << >>
    /\ known = << >>
    /\ num = 0
    /\ out = NotParsed

NextSeq ==
    \/ Tick
    \/ \E p \in Procs : Start(p, CoreQueries)
    \/ \E p \in Procs : Fetch(p, SeqPages)
    \/ \E p \in Procs : FetchParseError(p, SeqPages)
    \/ \E p \in Procs : RunStep(p)

SpecSeq == InitSeq /\ [][NextSeq]_vars

----------------------------------------------------------------------------
(* Properties of the parser *)

\* the strings of a known-titles list
KnownStrings(titles) == { titles[i].s : i \in { j \in 1..Len(titles) : ~titles[j].nan } }

\* the page without its i-th entry
RemoveAt(es, i) == SubSeq(es, 1, i - 1) \o SubSeq(es, i + 1, Len(es))

\* the entry passes every test of the loop and is appended when reached
Eligible(entry, titles) ==
    /\ entry.title.elem
    /\ ~TitleIn(strip(entry.title.text), titles)
    /\ entry.published.elem /\ entry.published.match
    /\ MonthNumber(entry.published.month) # 0
    /\ entry.authors.elem
    /\ entry.pdf

\* C2: every emitted record carries the trimmed title of its entry, and that
\* title is not in the supplied known-titles list.
C2_NeverEmitsKnown ==
    out.done =>
        \A k \in 1..Len(out.papers) :
            /\ out.papers[k].title = strip(entries[out.taken[k]].title.text)
            /\ out.papers[k].title \notin KnownStrings(known)

\* C2 witness: a parse that emitted a record after passing over an entry
\* whose title, once trimmed, is known.
C2_Witness ==
    /\ out.done /\ ~out.raised
    /\ \E k \in 1..Len(out.papers) : \E i \in 1..(out.taken[k] - 1) :
          /\ entries[i].title.text # strip(entries[i].title.text)
          /\ strip(entries[i].title.text) \in KnownStrings(known)
          /\ Eligible(entries[i], << >>)

\* the emitted records are those of the entries taken, in page order
InPageOrder ==
    /\ Len(out.taken) = Len(out.papers)
    /\ \A k \in 1..Len(out.papers) :
          /\ out.taken[k] \in 1..Len(entries)
          /\ out.papers[k] =
                PaperOf(entries[out.taken[k]],
                        strip(entries[out.taken[k]].title.text), DateOf(clock))
    /\ \A j, k \in 1..Len(out.taken) : j < k => out.taken[j] < out.taken[k]

\* C3 as stated: the parser emits at most num_papers records, in page order.
C3_AtMostNumPapers ==
    (out.done /\ ~out.raised) => (Len(out.papers) <= num /\ InPageOrder)

\* C3 amended: the parser emits at most max(num_papers, 0) records, in page
\* order (a negative num_papers yields the empty list).
C3_AtMostNumPapersOrNone ==
    (out.done /\ ~out.raised) =>
        (Len(out.papers) <= (IF num < 0 THEN 0 ELSE num) /\ InPageOrder)

\* C3 witness: the limit cut the page short: num_papers records, at least
\* two, were emitted and an eligible entry after the last one was left out.
C3_Witness ==
    /\ out.done /\ ~out.raised
    /\ num >= 2 /\ Len(out.papers) = num
    /\ \E i \in (out.taken[num] + 1)..Len(entries) : Eligible(entries[i], known)

\* the skippable issues: title already known, no 'originally announced
\* <Month> <year>' date, no link containing 'pdf'
Skippable(entry, titles) ==
    /\ entry.title.elem
    /\ \/ TitleIn(strip(entry.title.text), titles)
       \/ ~(entry.published.elem /\ entry.published.match)
       \/ ~entry.pdf

\* C8 as stated: an entry with a skippable issue is dropped without raising
\* and without counting: the parse of the page equals the parse of the page
\* without that entry.
C8_SkippableDropped ==
    out.done =>
        \A i \in 1..Len(entries) :
            Skippable(entries[i], known) =>
                LET r == fetch_arxiv_papers(RemoveAt(entries, i), num, known,
                                            DateOf(clock))
                IN  out.raised = r.raised /\ out.papers = r.papers

----------------------------------------------------------------------------
(* Properties of crawl runs *)

IsPrefix(s, t) == Len(s) <= Len(t) /\ SubSeq(t, 1, Len(s)) = s

\* the last n rows of the ledger file
LastRows(n) == SubSeq(ledger, Len(ledger) - n + 1, Len(ledger))

\* run p wrote the ledger and no run has written it since
LastWriter(p) == pc[p] = "done" /\ last_writer = p

\* run p ended and no run has started since
LastRun(p) == \A q \in Procs : q > p => pc[q] = "idle"

\* C1 as stated: after complete, non-overlapping runs from an empty ledger,
\* no two rows of the ledger have the same title.
C1_UniqueTitles ==
    (mode = "sequential" /\ \A p \in Procs : pc[p] \in { "idle", "done" }) =>
        \A i, j \in 1..Len(ledger) : i # j => ledger[i].title # ledger[j].title

\* C4 as stated: after save_all_paper_info, read_downloaded_papers yields
\* the rows it yielded before followed by the batch's rows, and the earlier
\* ledger file is a prefix of the later one.
C4_RoundTrip ==
    \A p \in Procs :
        (mode = "sequential" /\ LastWriter(p)) =>
            /\ read_downloaded_papers(ledger) =
                  read_downloaded_papers(ledger0[p])
                      \o NewFrame(AllPaperInfo(papers[p], today[p]))
            /\ IsPrefix(ledger0[p], ledger)

\* C5 as stated: every record of a run's batch has a YearMonth between the
\* run's start_year_month and its resolved end_year_month.
C5_WithinDateRange ==
    \A p \in Procs : \A k \in 1..Len(papers[p]) :
        /\ query[p].start <= papers[p][k].ym
        /\ papers[p][k].ym <= end_resolved[p]

\* C6: when a run has aborted (and no run has started since), the ledger
\* file is the one the run found when it started.
C6_AbortLeavesLedger ==
    \A p \in Procs :
        (mode = "sequential" /\ pc[p] = "aborted" /\ LastRun(p)) =>
            ledger = ledger0[p]

\* C6 witness: a run that aborted after it had written a PDF to disk.
C6_Witness ==
    \E p \in Procs :
        /\ mode = "sequential" /\ pc[p] = "aborted" /\ LastRun(p)
        /\ \E k \in 1..Len(attempts[p]) : attempts[p][k] = "fetched"

\* the ledger row of a record of the parser, field for field
RowOfRecord(paper) ==
    [date |-> paper.date, ym |-> paper.ym, title |-> paper.title,
     journal |-> paper.journal, author |-> paper.author]

\* the ledger row of a record of the parser, dated by the run
RowOfRecordDated(paper, day) ==
    [date |-> day, ym |-> paper.ym, title |-> paper.title,
     journal |-> paper.journal, author |-> paper.author]

\* a run in save_all_paper_info, or past it, attempted every download
AppendAfterDownloads ==
    \A p \in Procs :
        pc[p] \in { "save_write", "done" } => Len(attempts[p]) = Len(papers[p])

C9_CollisionSafe ==
    \A p \in Procs :
        (mode = "sequential" /\ pc[p] = "done" /\ dir_empty0[p]) =>
            \A j, k \in 1..Len(papers[p]) :
                papers[p][j].title # papers[p][k].title =>
                    /\ PdfPath(today[p], papers[p][j]) # PdfPath(today[p], papers[p][k])
                    /\ attempts[p][j] = "fetched"
                    /\ attempts[p][k] = "fetched"

\* C10: when runs execute one at a time, every row a completed run appended
\* is in the ledger (no update is lost).
C10_SequentialKeepsRows ==
    mode = "sequential" => Len(ledger) = appended

\* C10 witness: two overlapping runs have completed, each appended a row,
\* and the ledger holds fewer rows than were appended.
C10_Witness ==
    /\ mode = "concurrent"
    /\ \E p, q \in Procs :
          /\ p # q /\ pc[p] = "done" /\ pc[q] = "done"
          /\ papers[p] # << >> /\ papers[q] # << >>
    /\ Len(ledger) < appended

====
